---------------------------- MODULE Spec2Model ----------------------------
(* A model of logic.py (SymbolicLogic): the tokenizer, the stack evaluator,  *)
(* the truth-table generator, the table printer and combine, together with   *)
(* the two module globals vars and vars_order and the aliasing of the dict   *)
(* and list objects a statement [toks, vars, vars_order] is made of.         *)
(*                                                                           *)
(* A Python string is modelled as the sequence of its characters, each a     *)
(* one-character TLA+ string: the token 'AND' is <<"A","N","D">>, the        *)
(* variable name 'a' is <<"a">>, and the value 'True' is                     *)
(* <<"T","r","u","e">>.  Tokens, names and truth values are all Python       *)
(* strings in the source and are compared there as strings, so they are      *)
(* compared here as character sequences.                                     *)
EXTENDS Integers, Sequences, FiniteSets, TLC

VARIABLES
    vars,        \* global vars: the id of the dict it is bound to (1: the {} of line 34)
    vars_order,  \* global vars_order: the id of the list it is bound to (1: the [] of line 35)
    dicts,       \* heap of dict objects: id -> (name -> 'True' | 'False')
    lists,       \* heap of list objects holding variable names: id -> sequence
    stmts,       \* the statements the caller holds: each [toks, vars (dict id), order (list id)]
    table,       \* the table the caller holds: [head (statement index, 0: deleted), rows]
    ret,         \* how the last call ended: [kind, exc, stmt]
    out,         \* what the last call printed, line by line
    call,        \* the last call and its arguments
    src,         \* history: the text each held statement was parsed from
    used,        \* history: the held statements already passed to a later call
    ncalls,      \* number of calls made so far
    scan         \* a tokenize call followed iteration by iteration: [on, s, i, t, stuck]

state == <<vars, vars_order, dicts, lists, stmts, table, ret, out, call, src, used, ncalls, scan>>

-----------------------------------------------------------------------------
(* Bounds of the model. *)

\* longest text drawn exhaustively over Alphabet
MaxLen == 4
\* number of calls in one run of the exhaustive specification
MaxCalls == 2
\* number of calls in one run of the object-level specification
MaxOps == 4
\* number of statements the caller holds in the object-level specification
MaxStmts == 3
\* largest start and end given to truthtable
MaxRow == 2
\* number of iterations of the tokenizer's loop followed at one position
MaxStuck == 3

-----------------------------------------------------------------------------
(* Python strings. *)

Upper == <<"A","B","C","D","E","F","G","H","I","J","K","L","M",
           "N","O","P","Q","R","S","T","U","V","W","X","Y","Z">>
Lower == <<"a","b","c","d","e","f","g","h","i","j","k","l","m",
           "n","o","p","q","r","s","t","u","v","w","x","y","z">>
Digit == <<"0","1","2","3","4","5","6","7","8","9">>

Range(f) == {f[x] : x \in DOMAIN f}

\* string.letters and string.digits (C locale)
letters == Range(Upper) \cup Range(Lower)
digits == Range(Digit)

\* the characters of valid names in ASCII order: digits < upper case < '_' < lower case
AsciiOrder == Digit \o Upper \o <<"_">> \o Lower

ord(c) == CHOOSE k \in 1..Len(AsciiOrder) : AsciiOrder[k] = c

\* Python's a < b on two str values made of the characters above
RECURSIVE StrLess(_, _)
StrLess(a, b) ==
    IF b = <<>> THEN FALSE
    ELSE IF a = <<>> THEN TRUE
    ELSE IF Head(a) = Head(b) THEN StrLess(Tail(a), Tail(b))
    ELSE ord(Head(a)) < ord(Head(b))

\* s[i:i+n] for the 0-based i, on the 1-based sequence s
Slice(s, i, n) == SubSeq(s, i + 1, IF i + n < Len(s) THEN i + n ELSE Len(s))

-----------------------------------------------------------------------------
(* The module constants. *)

OPAREN == <<"O","P","A","R","E","N">>
CPAREN == <<"C","P","A","R","E","N">>
AND == <<"A","N","D">>
OR == <<"O","R">>
NOT == <<"N","O","T">>
IFTHEN == <<"I","F","T","H","E","N">>
IFF == <<"I","F","F">>
True == <<"T","r","u","e">>
False == <<"F","a","l","s","e">>
None == <<"N","o","n","e">>
value == <<"v","a","l","u","e">>

tok_list == <<OPAREN, CPAREN, AND, OR, NOT, IFTHEN, IFF>>
bin_list == {AND, OR, IFTHEN, IFF}
operators == {"(", ")", "&", "|", "!", "<", "-", ">"}


-----------------------------------------------------------------------------
(* Python lists and dicts as values. *)

\* d[k] = v on a dict
DictSet(d, k, v) == [n \in (DOMAIN d) \cup {k} |-> IF n = k THEN v ELSE d[n]]

\* tok in lst
InList(lst, tok) == \E k \in 1..Len(lst) : lst[k] = tok

\* del lst[i] for the 0-based i
DelAt(lst, i) == SubSeq(lst, 1, i) \o SubSeq(lst, i + 2, Len(lst))

\* lst[i] = v for the 0-based i; i = -1 is Python's last element
SetAt(lst, i, v) == [lst EXCEPT ![IF i < 0 THEN Len(lst) + i + 1 ELSE i + 1] = v]

\* lst[i] for the 0-based i, i >= -1; i = -1 is Python's last element
GetAt(lst, i) == lst[IF i < 0 THEN Len(lst) + i + 1 ELSE i + 1]

RECURSIVE Reverse(_)
Reverse(lst) == IF lst = <<>> THEN <<>> ELSE Reverse(Tail(lst)) \o <<Head(lst)>>

\* the result of a helper that may raise: err is "" or the exception's name
Ok(v) == [err |-> "", val |-> v]
Raise(e) == [err |-> e, val |-> <<>>]

-----------------------------------------------------------------------------
(* tokenize(s, toks) *)

\* lines 813-828: the token an operator character (or '->', '<->') stands for
lexeme(s, i) ==
    LET c == s[i + 1] IN
    IF c = "(" THEN [tok |-> tok_list[1], skip |-> 1]
    ELSE IF c = ")" THEN [tok |-> tok_list[2], skip |-> 1]
    ELSE IF c = "&" THEN [tok |-> tok_list[3], skip |-> 1]
    ELSE IF c = "|" THEN [tok |-> tok_list[4], skip |-> 1]
    ELSE IF c = "!" THEN [tok |-> tok_list[5], skip |-> 1]
    ELSE IF Slice(s, i, 2) = <<"-", ">">> THEN [tok |-> tok_list[6], skip |-> 2]
    ELSE IF Slice(s, i, 3) = <<"<", "-", ">">> THEN [tok |-> tok_list[7], skip |-> 3]
    ELSE [tok |-> <<>>, skip |-> 1]

\* line 840: the position the inner while loop stops at
RECURSIVE name_end(_, _)
name_end(s, i) ==
    IF i < Len(s) /\ s[i + 1] \notin operators /\ s[i + 1] # " "
    THEN name_end(s, i + 1)
    ELSE i

\* lines 844-850
valid_name(tok) ==
    IF Len(tok) > 0
    THEN /\ tok[1] \in letters
         /\ \A k \in 1..Len(tok) : tok[k] \in letters \/ tok[k] \in digits \/ tok[k] = "_"
    ELSE TRUE

\* toks.append(tok): on the caller's list, or on the list the local name toks
\* was rebound to by line 859
toks_append(t, tok) ==
    IF t.rebound THEN [t EXCEPT !.loc = Append(@, tok)]
    ELSE [t EXCEPT !.toks = Append(@, tok)]

\* lines 852-859
name_token(t, tok) ==
    IF valid_name(tok)
    THEN [toks_append(t, tok) EXCEPT
            !.vars = DictSet(@, tok, False),
            !.order = IF InList(@, tok) THEN @ ELSE Append(@, tok)]
    ELSE [t EXCEPT
            !.out = Append(@, [msg |-> "Invalid variable name: ", arg |-> tok]),
            !.rebound = TRUE,
            !.loc = <<>>]

\* lines 810-859: the scan from position i.  An iteration that leaves i where
\* it was (a '<', '-' or '>' that begins no operator) repeats for ever: hang.
RECURSIVE tokenize_loop(_, _, _)

\* lines 830-833: an operator token
tokenize_op(s, i, t, lx) == tokenize_loop(s, i + lx.skip, toks_append(t, lx.tok))

\* lines 840-859: a name that runs to position j
tokenize_name(s, i, t, j) ==
    IF j = i THEN [name_token(t, <<>>) EXCEPT !.hang = TRUE]
    ELSE tokenize_loop(s, j, name_token(t, SubSeq(s, i + 1, j)))

tokenize_loop(s, i, t) ==
    IF i >= Len(s) THEN t
    ELSE IF Len(lexeme(s, i).tok) > 0 THEN tokenize_op(s, i, t, lexeme(s, i))
    ELSE IF s[i + 1] = " " THEN tokenize_loop(s, i + 1, t)
    ELSE tokenize_name(s, i, t, name_end(s, i))

\* line 861: toks.append('CPAREN'), which a scan that never ends never reaches
tokenize_end(t) == IF t.hang THEN t ELSE toks_append(t, CPAREN)

\* tokenize(s, toks) with the globals vars = d and vars_order = o: the caller's
\* list afterwards, the two globals' objects, the lines printed
tokenize(s, toks, d, o) ==
    tokenize_end(tokenize_loop(s, 0, [toks |-> toks, loc |-> <<>>, rebound |-> FALSE,
                                      vars |-> d, order |-> o, out |-> <<>>, hang |-> FALSE]))

\* tokenize before its first iteration
tokenize_start(toks, d, o) ==
    [toks |-> toks, loc |-> <<>>, rebound |-> FALSE,
     vars |-> d, order |-> o, out |-> <<>>, hang |-> FALSE]

\* lines 840-859 for the name that runs from position i to position j
scan_name(s, i, t, j) == [i |-> j, t |-> name_token(t, SubSeq(s, i + 1, j))]

\* lines 811-859: one iteration of the while loop at position i < len(s);
\* the position and the tokenizer's state afterwards
scan_step(s, i, t) ==
    IF Len(lexeme(s, i).tok) > 0
    THEN [i |-> i + lexeme(s, i).skip, t |-> toks_append(t, lexeme(s, i).tok)]
    ELSE IF s[i + 1] = " " THEN [i |-> i + 1, t |-> t]
    ELSE scan_name(s, i, t, name_end(s, i))

-----------------------------------------------------------------------------
(* eval(toks) and what it calls; d is the dict the global vars is bound to *)

eval_and_op(lval, rval) ==
    IF lval = False /\ rval = False THEN False
    ELSE IF lval = False /\ rval = True THEN False
    ELSE IF lval = True /\ rval = False THEN False
    ELSE IF lval = True /\ rval = True THEN True
    ELSE None

eval_or_op(lval, rval) ==
    IF lval = False /\ rval = False THEN False
    ELSE IF lval = False /\ rval = True THEN True
    ELSE IF lval = True /\ rval = False THEN True
    ELSE IF lval = True /\ rval = True THEN True
    ELSE None

eval_ifthen_op(lval, rval) ==
    IF lval = False /\ rval = False THEN True
    ELSE IF lval = False /\ rval = True THEN True
    ELSE IF lval = True /\ rval = False THEN False
    ELSE IF lval = True /\ rval = True THEN True
    ELSE None

eval_iff_op(lval, rval) ==
    IF lval = False /\ rval = False THEN True
    ELSE IF lval = False /\ rval = True THEN False
    ELSE IF lval = True /\ rval = False THEN False
    ELSE IF lval = True /\ rval = True THEN True
    ELSE None

\* lines 638-650: an operand is the literal 'True' or 'False', or a key of vars
operand(arg, d) ==
    IF arg = False THEN Ok(False)
    ELSE IF arg = True THEN Ok(True)
    ELSE IF arg \in DOMAIN d THEN Ok(d[arg])
    ELSE Raise("KeyError")

\* lines 652-659
apply_bin_op(op, l, r) ==
    IF l.err # "" THEN l
    ELSE IF r.err # "" THEN r
    ELSE IF op = AND THEN Ok(eval_and_op(l.val, r.val))
    ELSE IF op = OR THEN Ok(eval_or_op(l.val, r.val))
    ELSE IF op = IFTHEN THEN Ok(eval_ifthen_op(l.val, r.val))
    ELSE IF op = IFF THEN Ok(eval_iff_op(l.val, r.val))
    ELSE Ok(None)

eval_bin_op(args, d) == apply_bin_op(args[2], operand(args[1], d), operand(args[3], d))

\* lines 607-610
negate(v) ==
    IF v.err # "" THEN v
    ELSE IF v.val = True THEN Ok(False)
    ELSE Ok(True)

eval_mon_op(args, d) ==
    negate(IF args[2] # True /\ args[2] # False
           THEN (IF args[2] \in DOMAIN d THEN Ok(d[args[2]]) ELSE Raise("KeyError"))
           ELSE Ok(args[2]))

RECURSIVE reduce_monos_loop(_, _, _)

\* lines 574-576: the value r replaces the 'NOT', its operand is deleted
monos_replace(lrtoks, i, r, d) ==
    IF r.err # "" THEN r
    ELSE reduce_monos_loop(DelAt(SetAt(lrtoks, i, r.val), i + 1), i + 1, d)

\* lines 570-576, from index i
reduce_monos_loop(lrtoks, i, d) ==
    IF i >= Len(lrtoks) THEN Ok(lrtoks)
    ELSE IF lrtoks[i + 1] = NOT
    THEN IF i + 1 >= Len(lrtoks) THEN Raise("IndexError")
         ELSE monos_replace(lrtoks, i, eval_mon_op(<<lrtoks[i + 1], lrtoks[i + 2]>>, d), d)
    ELSE reduce_monos_loop(lrtoks, i + 1, d)

reduce_monos(lrtoks, d) == reduce_monos_loop(lrtoks, 0, d)

RECURSIVE reduce_bins_loop(_, _, _)

\* line 544 after the call of line 543 returned: the loop goes on, on the
\* list that call worked on
bins_continue(inner, i, d) ==
    IF inner.err # "" THEN inner
    ELSE reduce_bins_loop(inner.val, i + 1, d)

\* lines 540-543: the value r is stored at i - 1 (Python's last element when
\* i = 0), the operator and its right operand are deleted, reduce_bins is
\* called on the same list
bins_replace(lrtoks, i, r, d) ==
    IF r.err # "" THEN r
    ELSE bins_continue(reduce_bins_loop(DelAt(DelAt(SetAt(lrtoks, i - 1, r.val), i), i), 0, d), i, d)

\* lines 536-544, from index i: lrtoks[i - 1] with i = 0 is Python's lrtoks[-1]
reduce_bins_loop(lrtoks, i, d) ==
    IF i >= Len(lrtoks) THEN Ok(lrtoks)
    ELSE IF lrtoks[i + 1] \in bin_list
    THEN IF i + 1 >= Len(lrtoks) THEN Raise("IndexError")
         ELSE bins_replace(lrtoks, i,
                  eval_bin_op(<<GetAt(lrtoks, i - 1), lrtoks[i + 1], lrtoks[i + 2]>>, d), d)
    ELSE reduce_bins_loop(lrtoks, i + 1, d)

reduce_bins(lrtoks, d) == reduce_bins_loop(lrtoks, 0, d)

\* lines 508-510 and 469-471: more than one element is a RuntimeError, and
\* element 0 of an empty list an IndexError
single(r) ==
    IF r.err # "" THEN r
    ELSE IF Len(r.val) > 1 THEN Raise("RuntimeError")
    ELSE IF Len(r.val) = 0 THEN Raise("IndexError")
    ELSE Ok(r.val[1])

\* line 507 after line 506
bins_after(m, d) == IF m.err # "" THEN m ELSE reduce_bins(m.val, d)

eval_ltor_toks(lrtoks, d) == single(bins_after(reduce_monos(lrtoks, d), d))

\* lines 465-467: the index of the 'OPAREN' the pops stop at (0: the stack runs out)
last_oparen(stack) ==
    IF \E p \in 1..Len(stack) : stack[p] = OPAREN
    THEN CHOOSE p \in 1..Len(stack) :
            /\ stack[p] = OPAREN
            /\ \A q \in (p + 1)..Len(stack) : stack[q] # OPAREN
    ELSE 0

RECURSIVE eval_loop(_, _, _, _)

\* line 468: the group's value goes on the stack
push_value(toks, k, rest, r, d) ==
    IF r.err # "" THEN r
    ELSE eval_loop(toks, k + 1, Append(rest, r.val), d)

\* lines 464-468: the stack is popped down to the 'OPAREN' at p, and what
\* was popped, without its first and last element, is evaluated
close_group(toks, k, pushed, p, d) ==
    IF p = 0 THEN Raise("IndexError")
    ELSE push_value(toks, k, SubSeq(pushed, 1, p - 1),
                    eval_ltor_toks(SubSeq(pushed, p + 1, Len(pushed) - 1), d), d)

\* lines 461-468, from the k-th token (1-based) on
eval_loop(toks, k, stack, d) ==
    IF k > Len(toks) THEN Ok(stack)
    ELSE IF toks[k] = CPAREN
    THEN close_group(toks, k, Append(stack, toks[k]), last_oparen(Append(stack, toks[k])), d)
    ELSE eval_loop(toks, k + 1, Append(stack, toks[k]), d)

eval(toks, d) == single(eval_loop(toks, 1, <<>>, d))

\* lines 422-433
RECURSIVE bits_of(_)
bits_of(x) ==
    IF x > 0
    THEN <<IF x % 2 = 0 THEN False ELSE True>> \o bits_of(x \div 2)
    ELSE <<>>

\* lines 430-433
bit_at(bits, c) == IF c > Len(bits) - 1 THEN False ELSE bits[c + 1]

\* a faulty get_bit, which reads the bit one position higher
get_bit_shifted(x, c) == bit_at(bits_of(x), c + 1)

get_bit(x, c) == bit_at(bits_of(x), c)

-----------------------------------------------------------------------------
(* The heap: H = [dicts, lists, vars, vars_order].  A call's outcome is       *)
(* [kind, exc]: "statement" (a list of three), "empty" ([]), "table",         *)
(* "printed", "raise" (exc escapes the call) or "hang" (the call never ends). *)

Printed(msg, arg) == [msg |-> msg, arg |-> arg]

\* SymbolicLogic.statement(s): the heap afterwards, the outcome, the statement
\* built (toks, and the ids of the dict and the list it shares with the
\* globals) and the lines printed
\* lines 112-117: the outcome, given what eval(toks) did
statement_verify(H2, st, printed, hang, e) ==
    IF hang THEN [H |-> H2, kind |-> "hang", exc |-> "", st |-> st, out |-> printed]
    ELSE IF e.err \in {"KeyError", "RuntimeError"}
    THEN [H |-> H2, kind |-> "empty", exc |-> "", st |-> st,
          out |-> Append(printed, Printed("Malformed Statement", <<>>))]
    ELSE IF e.err # ""
    THEN [H |-> H2, kind |-> "raise", exc |-> e.err, st |-> st, out |-> printed]
    ELSE [H |-> H2, kind |-> "statement", exc |-> "", st |-> st, out |-> printed]

\* lines 109-113 after tokenize returned t: the globals are bound to the new
\* dict and list, statement = [toks, vars, vars_order]
statement_tokens(H, t) ==
    statement_verify(
        [dicts |-> Append(H.dicts, t.vars), lists |-> Append(H.lists, t.order),
         vars |-> Len(H.dicts) + 1, vars_order |-> Len(H.lists) + 1],
        [toks |-> t.toks, vars |-> Len(H.dicts) + 1, order |-> Len(H.lists) + 1],
        t.out, t.hang,
        IF t.hang THEN Ok(<<>>) ELSE eval(t.toks, t.vars))

statement(H, s) == statement_tokens(H, tokenize(s, <<OPAREN>>, <<>>, <<>>))

\* lines 184-188: one row's assignment, key by key with j counting up; the
\* row is built by row.insert(0, bit)
RECURSIVE assign_row(_, _, _, _, _)
assign_row(d, keys, i, j, row) ==
    IF j >= Len(keys) THEN [d |-> d, row |-> row]
    ELSE assign_row(DictSet(d, keys[j + 1], get_bit(i, j)), keys, i, j + 1,
                    <<get_bit(i, j)>> \o row)

RECURSIVE table_rows(_, _, _, _, _, _)

\* lines 189-190: the row is closed with eval(toks) and appended
row_append(toks, a, keys, i, end, rows, e) ==
    IF e.err # "" THEN [d |-> a.d, rows |-> rows, err |-> e.err]
    ELSE table_rows(toks, a.d, keys, i + 1, end, Append(rows, Append(a.row, e.val)))

\* line 189: eval(toks) under the assignment a
row_eval(toks, a, keys, i, end, rows) ==
    row_append(toks, a, keys, i, end, rows, eval(toks, a.d))

\* lines 181-190: the rows from index i on; an exception of eval ends the call
\* with the dict as the row's assignment left it
table_rows(toks, d, keys, i, end, rows) ==
    IF i >= end THEN [d |-> d, rows |-> rows, err |-> ""]
    ELSE row_eval(toks, assign_row(d, keys, i, 0, <<>>), keys, i, end, rows)

RECURSIVE Pow2(_)
Pow2(n) == IF n = 0 THEN 1 ELSE 2 * Pow2(n - 1)

\* SymbolicLogic.truthtable(statement, start, end): keys.reverse() reverses
\* the statement's own list
\* line 191, or the exception of line 189: the globals are bound to the
\* statement's dict and list, which hold what the rows left in them
truthtable_result(H, st, keys, r) ==
    [H |-> [dicts |-> [H.dicts EXCEPT ![st.vars] = r.d],
            lists |-> [H.lists EXCEPT ![st.order] = keys],
            vars |-> st.vars, vars_order |-> st.order],
     kind |-> IF r.err # "" THEN "raise" ELSE "table",
     exc |-> r.err,
     rows |-> IF r.err # "" THEN <<>> ELSE r.rows]

\* lines 179-190 with keys the statement's list, reversed in place
truthtable_keys(H, st, start, end, keys) ==
    truthtable_result(H, st, keys, table_rows(st.toks, H.dicts[st.vars], keys, start, end, <<>>))

truthtable(H, st, start, end) ==
    truthtable_keys(H, st, start,
                    IF end = -1 THEN Pow2(Cardinality(DOMAIN H.dicts[st.vars])) ELSE end,
                    Reverse(H.lists[st.order]))

\* lines 259-260 and 275-276: s padded with blanks while cond(len(s)) holds
RECURSIVE pad_below(_, _)
pad_below(s, n) == IF Len(s) < n THEN pad_below(Append(s, " "), n) ELSE s

\* lines 256-262: the header line and vars_len
RECURSIVE header_line(_, _)
header_line(order, line) ==
    IF order = <<>> THEN line
    ELSE header_line(Tail(order),
                     line \o pad_below(Append(Head(order), " "), Len(<<"F","a","l","s","e"," ">>))
                          \o <<"|", " ">>)

\* lines 266-279: one row's line, from its i-th element (0-based) on
RECURSIVE row_line(_, _, _, _)
row_line(row, i, vars_len, line) ==
    IF i >= Len(row) THEN line
    ELSE LET e == row[i + 1]
             s0 == e \o (IF e = True THEN <<" ", " ">> ELSE <<" ">>)
             s1 == IF i < Len(vars_len) THEN pad_below(s0, vars_len[i + 1] + 1) ELSE s0
         IN  row_line(row, i + 1, vars_len, line \o s1 \o <<"|", " ">>)

\* SymbolicLogic.print_table(table), for a table whose first element is the
\* statement st: vars_order is a local name here, bound to the statement's
\* own list, which is reversed and extended in place
\* lines 263-281: what is printed
table_lines(order, line, rows) ==
    <<Printed("", line), Printed("", [k \in 1..Len(line) |-> "-"])>>
    \o [k \in 1..Len(rows) |->
          Printed("", row_line(rows[k], 0, [n \in 1..Len(order) |-> Len(order[n])], <<>>))]
    \o <<Printed("", <<>>)>>

\* lines 254-281 with order the statement's list after reverse() and append('value')
print_table_order(H, st, rows, order) ==
    [H |-> [H EXCEPT !.lists[st.order] = order],
     out |-> table_lines(order, header_line(order, <<>>), rows)]

print_table(H, st, rows) ==
    print_table_order(H, st, rows, Append(Reverse(H.lists[st.order]), value))

\* sorted(list(set(lst)))
RECURSIVE sorted(_)
least(S) == CHOOSE m \in S : \A o \in S \ {m} : StrLess(m, o)

sorted(S) == IF S = {} THEN <<>> ELSE <<least(S)>> \o sorted(S \ {least(S)})

\* a faulty merge of the two dicts, which keeps x's value for a key of both
dict_update_keep(dx, dy) ==
    [n \in (DOMAIN dx) \cup (DOMAIN dy) |-> IF n \in DOMAIN dx THEN dx[n] ELSE dy[n]]

\* lines 366-367: for key in y[1]: x[1][key] = y[1][key]
dict_update(dx, dy) ==
    [n \in (DOMAIN dx) \cup (DOMAIN dy) |-> IF n \in DOMAIN dy THEN dy[n] ELSE dx[n]]

\* lines 356-371: combine of two lists of three.  statement3 is built on x's
\* own dict and x's own list: both are written to, and the dict is kept
combine_lists(H, x, y, printed) ==
    [H |-> [H EXCEPT
              !.dicts[x.vars] = dict_update(@, H.dicts[y.vars]),
              !.lists = Append([@ EXCEPT ![x.order] = @ \o H.lists[y.order]],
                               sorted(Range(H.lists[x.order] \o H.lists[y.order])))],
     kind |-> "statement", exc |-> "",
     st |-> [toks |-> <<OPAREN>> \o x.toks \o <<OR>> \o y.toks \o <<CPAREN>>,
             vars |-> x.vars, order |-> Len(H.lists) + 1],
     out |-> printed]

\* an argument of combine: a held statement, a str, or the [] a failed
\* statement() returned
StmtArg(k) == [t |-> "stmt", k |-> k, s |-> <<>>]
StrArg(s) == [t |-> "str", k |-> 0, s |-> s]
EmptyArg == [t |-> "empty", k |-> 0, s |-> <<>>]

TypeError(H, printed) ==
    [H |-> H, kind |-> "raise", exc |-> "TypeError",
     st |-> [toks |-> <<>>, vars |-> 0, order |-> 0], out |-> printed]

\* lines 375-380: the str side is parsed, then combine is called again; a []
\* from the parse falls through every branch of that second call
combine_again(p, held, strFirst) ==
    IF p.kind = "statement"
    THEN (IF strFirst THEN combine_lists(p.H, p.st, held, p.out)
          ELSE combine_lists(p.H, held, p.st, p.out))
    ELSE IF p.kind = "empty" THEN TypeError(p.H, p.out)
    ELSE p

combine_parsed(H, held, s, strFirst) == combine_again(statement(H, s), held, strFirst)

\* SymbolicLogic.combine(statement1, statement2)
combine(H, held, x, y) ==
    IF x.t = "stmt" /\ y.t = "stmt" THEN combine_lists(H, held[x.k], held[y.k], <<>>)
    ELSE IF x.t = "str" /\ y.t = "str"
    THEN statement(H, <<"(">> \o x.s \o <<")", "|", "(">> \o y.s \o <<")">>)
    ELSE IF x.t = "stmt" /\ y.t = "str" THEN combine_parsed(H, held[x.k], y.s, FALSE)
    ELSE IF y.t = "stmt" /\ x.t = "str" THEN combine_parsed(H, held[y.k], x.s, TRUE)
    ELSE TypeError(H, <<>>)

-----------------------------------------------------------------------------
(* The calls.  Each action is one call of a method of SymbolicLogic by the   *)
(* code that uses the module, from the call to its return (or its raise).    *)

Heap == [dicts |-> dicts, lists |-> lists, vars |-> vars, vars_order |-> vars_order]

NoArg == [t |-> "none", k |-> 0, s |-> <<>>]

\* the call being made, as the caller wrote it.  fresh: the statement given
\* to the call had been given to no call before; names: that statement's
\* list of names at the moment of the call
Call(op, s, k, start, end, x, y) ==
    [op |-> op, s |-> s, k |-> k, start |-> start, end |-> end, x |-> x, y |-> y,
     fresh |-> k \notin used,
     names |-> IF k \in 1..Len(stmts) THEN lists[stmts[k].order] ELSE <<>>]

SetHeap(H) ==
    /\ dicts' = H.dicts
    /\ lists' = H.lists
    /\ vars' = H.vars
    /\ vars_order' = H.vars_order

\* a call that returned a statement: the caller keeps it
Keep(r, text) ==
    IF r.kind = "statement"
    THEN /\ stmts' = Append(stmts, r.st)
         /\ src' = Append(src, text)
         /\ ret' = [kind |-> r.kind, exc |-> r.exc, stmt |-> Len(stmts) + 1]
    ELSE /\ UNCHANGED <<stmts, src>>
         /\ ret' = [kind |-> r.kind, exc |-> r.exc, stmt |-> 0]

\* the return of statement or combine
Returned(r, text) ==
    /\ SetHeap(r.H)
    /\ Keep(r, text)
    /\ out' = r.out

\* the return of truthtable: the caller holds the table (its first element
\* is the statement itself), or keeps the one it held when the call raised
Tabulated(r, k) ==
    /\ SetHeap(r.H)
    /\ ret' = [kind |-> r.kind, exc |-> r.exc, stmt |-> 0]
    /\ table' = IF r.kind = "table" THEN [head |-> k, rows |-> r.rows] ELSE table

\* the return of print_table
Shown(r) ==
    /\ SetHeap(r.H)
    /\ out' = r.out

\* s = log.statement(text)
Statement(text) ==
    /\ ret.kind # "hang"
    /\ Returned(statement(Heap, text), text)
    /\ call' = Call("statement", text, 0, 0, 0, NoArg, NoArg)
    /\ ncalls' = ncalls + 1
    /\ UNCHANGED <<table, used, scan>>

\* t = log.truthtable(stmts[k], start, end)
Truthtable(k, start, end) ==
    /\ ret.kind # "hang"
    /\ k \in 1..Len(stmts)
    /\ Tabulated(truthtable(Heap, stmts[k], start, end), k)
    /\ out' = <<>>
    /\ call' = Call("truthtable", <<>>, k, start, end, NoArg, NoArg)
    /\ used' = used \cup {k}
    /\ ncalls' = ncalls + 1
    /\ UNCHANGED <<stmts, src, scan>>

\* log.print_table(t), t the table the last truthtable call returned: del
\* table[0] takes the statement out of it, so it is printed once
PrintTable ==
    /\ ret.kind # "hang"
    /\ table.head # 0
    /\ Shown(print_table(Heap, stmts[table.head], table.rows))
    /\ table' = [table EXCEPT !.head = 0]
    /\ ret' = [kind |-> "printed", exc |-> "", stmt |-> 0]
    /\ call' = Call("print_table", <<>>, table.head, 0, 0, NoArg, NoArg)
    /\ used' = used \cup {table.head}
    /\ ncalls' = ncalls + 1
    /\ UNCHANGED <<stmts, src, scan>>

\* f = log.combine(x, y)
Combine(x, y) ==
    /\ ret.kind # "hang"
    /\ x.t = "stmt" => x.k \in 1..Len(stmts)
    /\ y.t = "stmt" => y.k \in 1..Len(stmts)
    /\ Returned(combine(Heap, stmts, x, y), <<>>)
    /\ call' = Call("combine", <<>>, 0, 0, 0, x, y)
    /\ used' = used \cup {a.k : a \in {b \in {x, y} : b.t = "stmt"}}
    /\ ncalls' = ncalls + 1
    /\ UNCHANGED <<table, scan>>

\* no tokenize call is being followed
NoScan == [on |-> FALSE, s |-> <<>>, i |-> 0, t |-> tokenize_start(<<>>, <<>>, <<>>), stuck |-> 0]

\* the module as imported: vars = {} and vars_order = [] (lines 34-35)
Init ==
    /\ dicts = << <<>> >>
    /\ lists = << <<>> >>
    /\ vars = 1
    /\ vars_order = 1
    /\ stmts = <<>>
    /\ src = <<>>
    /\ table = [head |-> 0, rows |-> <<>>]
    /\ ret = [kind |-> "none", exc |-> "", stmt |-> 0]
    /\ out = <<>>
    /\ used = {}
    /\ call = Call("none", <<>>, 0, 0, 0, NoArg, NoArg)
    /\ scan = NoScan
    /\ ncalls = 0

-----------------------------------------------------------------------------
(* The texts the calls are made with. *)

\* the characters of the texts drawn exhaustively
Alphabet == {"(", ")", "&", "|", "!", "<", "-", ">", " ", "a", "b", "3", "@"}

AllTexts == UNION {[1..n -> Alphabet] : n \in 0..MaxLen}

\* the texts of the docstrings, and texts with a blank, a '<', a '@', a
\* repeated Not and names spelled like the module's own tokens
DocTexts ==
    { <<"a","&","b","|","!","(","c","|","a",")">>,
      <<"!","(","(","!","(","a","&","b",")",")",")">>,
      <<"3","f","e"," ","&"," ","@","q">>,
      <<"a","&","&","b">>,
      <<"a","&","(","(","b",")">>,
      <<"3","x"," ","&"," ","y">>,
      <<"a"," ","&"," ","3","x">>,
      <<"!","!","v">>,
      <<"a","<","-",">","b">>,
      <<"a","<","b">>,
      <<"&","a"," ","b">>,
      <<"T","r","u","e">>,
      <<"T","r","u","e","&","a">>,
      <<"!","T","r","u","e">>,
      <<"a","&","b">>,
      <<"c","&","d">>,
      <<"a","&","b","|","c">>,
      <<"a","|","b","&","c">>,
      <<"a","&","(","b","|","c",")">> }

\* the texts of the object-level specification: an implication (not
\* symmetric in its two names), a text whose names are found in an order
\* that is not the sorted one and that shares a name with it, a single name
ObjTexts ==
    { <<"a","-",">","b">>,
      <<"b","|","B">>,
      <<"c">> }

\* the texts given to combine as a str: one statement() accepts, one it
\* rejects
StrTexts == { <<"c">>, <<"!","!","v">> }

\* the range arguments tried on a statement with n registered names
Min(a, b) == IF a < b THEN a ELSE b
Starts(n) == 0..Min(Pow2(n), MaxRow)
Ends(n, start) == {-1} \cup (start..Min(Pow2(n), MaxRow))

\* the ranges of the object-level specification: the whole table, or one row
ObjRanges(n) == {<<0, -1>>} \cup {<<i, i + 1>> : i \in 0..(Min(Pow2(n), MaxRow) - 1)}

-----------------------------------------------------------------------------
(* SpecParse: one statement is built from any text, then tabulated. *)

ParseStatement == ncalls = 0 /\ \E text \in AllTexts \cup DocTexts : Statement(text)

ParseTruthtable ==
    /\ ncalls < MaxCalls
    /\ \E k \in 1..Len(stmts) :
         LET n == Cardinality(DOMAIN dicts[stmts[k].vars]) IN
         \E start \in Starts(n) : \E end \in Ends(n, start) : Truthtable(k, start, end)

NextParse == ParseStatement \/ ParseTruthtable

SpecParse == Init /\ [][NextParse]_state

-----------------------------------------------------------------------------
(* Spec: statements are built, tabulated, printed and combined in any order. *)

Args == {StmtArg(k) : k \in 1..Len(stmts)} \cup {StrArg(text) : text \in StrTexts}

ObjStatement ==
    /\ ncalls < MaxOps
    /\ Len(stmts) < MaxStmts
    /\ \E text \in ObjTexts : Statement(text)

ObjTruthtable ==
    /\ ncalls < MaxOps
    /\ \E k \in 1..Len(stmts) :
         LET n == Cardinality(DOMAIN dicts[stmts[k].vars]) IN
         \E r \in ObjRanges(n) : Truthtable(k, r[1], r[2])

ObjPrintTable == ncalls < MaxOps /\ PrintTable

ObjCombine ==
    /\ ncalls < MaxOps
    /\ Len(stmts) < MaxStmts
    /\ \E x \in Args, y \in Args : Combine(x, y)

Next == ObjStatement \/ ObjTruthtable \/ ObjPrintTable \/ ObjCombine

Spec == Init /\ [][Next]_state

-----------------------------------------------------------------------------
(* SpecScan: the tokenize call that statement(text) makes (lines 109-110),  *)
(* followed one iteration of its while loop at a time.  The other variables *)
(* are left alone until the call returns, which this specification does     *)
(* not follow further.                                                      *)

Others == <<vars, vars_order, dicts, lists, stmts, table, ret, out, call, src, used, ncalls>>

\* tokenize(s, toks) is entered with toks = ['OPAREN'], vars = {}, vars_order = []
ScanStart ==
    /\ scan = NoScan
    /\ \E text \in AllTexts \cup DocTexts :
           scan' = [on |-> TRUE, s |-> text, i |-> 0,
                    t |-> tokenize_start(<<OPAREN>>, <<>>, <<>>), stuck |-> 0]
    /\ UNCHANGED Others

Scanned(r) ==
    scan' = [scan EXCEPT !.i = r.i, !.t = r.t,
                         !.stuck = IF r.i = scan.i THEN scan.stuck + 1 ELSE 0]

\* one iteration of the loop of line 810
ScanStep ==
    /\ scan.on
    /\ scan.i < Len(scan.s)
    /\ scan.stuck < MaxStuck
    /\ Scanned(scan_step(scan.s, scan.i, scan.t))
    /\ UNCHANGED Others

\* the loop is left, line 861 runs and tokenize returns
ScanEnd ==
    /\ scan.on
    /\ scan.i >= Len(scan.s)
    /\ scan' = [scan EXCEPT !.on = FALSE, !.t = toks_append(scan.t, CPAREN)]
    /\ UNCHANGED Others

NextScan == ScanStart \/ ScanStep \/ ScanEnd

SpecScan == Init /\ [][NextScan]_state

-----------------------------------------------------------------------------
(* The semantics the specification document gives, written on its own: an   *)
(* expression is a term followed by any number of (binary operator, term),   *)
(* folded from the left with the four truth tables; a term is a name, a      *)
(* parenthesised expression, or Not applied to a term.  A name's value is    *)
(* what the assignment gives it.  Values are BOOLEAN here.                   *)

RefBad == [ok |-> FALSE, val |-> FALSE, next |-> 0]

RefOp(op, l, r) ==
    IF op = AND THEN l /\ r
    ELSE IF op = OR THEN l \/ r
    ELSE IF op = IFTHEN THEN l => r
    ELSE l <=> r

IsName(tok) == tok \notin Range(tok_list)

RECURSIVE RefTerm(_, _, _)
RECURSIVE RefRest(_, _, _)

RefClose(toks, r) ==
    IF r.ok /\ r.next <= Len(toks) /\ toks[r.next] = CPAREN
    THEN [r EXCEPT !.next = @ + 1]
    ELSE RefBad

RefNot(r) == IF r.ok THEN [r EXCEPT !.val = ~@] ELSE RefBad

RefApply(toks, op, l, r, asg) ==
    IF r.ok
    THEN RefRest(toks, [ok |-> TRUE, val |-> RefOp(op, l.val, r.val), next |-> r.next], asg)
    ELSE RefBad

RefRest(toks, l, asg) ==
    IF ~l.ok THEN RefBad
    ELSE IF l.next <= Len(toks) /\ toks[l.next] \in bin_list
    THEN RefApply(toks, toks[l.next], l, RefTerm(toks, l.next + 1, asg), asg)
    ELSE l

RefTerm(toks, i, asg) ==
    IF i > Len(toks) THEN RefBad
    ELSE IF toks[i] = OPAREN THEN RefClose(toks, RefRest(toks, RefTerm(toks, i + 1, asg), asg))
    ELSE IF toks[i] = NOT THEN RefNot(RefTerm(toks, i + 1, asg))
    ELSE IF IsName(toks[i]) /\ toks[i] \in DOMAIN asg
    THEN [ok |-> TRUE, val |-> asg[toks[i]], next |-> i + 1]
    ELSE RefBad

\* the whole token sequence is one parenthesised expression
RefWhole(r, toks) == IF r.ok /\ r.next = Len(toks) + 1 THEN r ELSE RefBad

RefEval(toks, asg) == RefWhole(RefTerm(toks, 1, asg), toks)

\* 'True' / 'False' for a BOOLEAN
Str(b) == IF b THEN True ELSE False

\* the assignment a table row shows: the k-th name of names has the row's k-th value
RowAsg(names, row) ==
    [n \in Range(names) |-> row[CHOOSE k \in 1..Len(names) : names[k] = n] = True]

Last(row) == row[Len(row)]

\* the names among a token sequence's tokens
NamesOf(toks) == {toks[k] : k \in {j \in 1..Len(toks) : IsName(toks[j])}}

AllFalse(names) == [n \in names |-> FALSE]

\* the token sequence is one well-formed parenthesised expression
WellFormed(toks) == RefEval(toks, AllFalse(NamesOf(toks))).ok

\* the candidate names of a text: its longest runs of characters that are
\* neither an operator character nor a blank
NameChar(c) == c \notin operators /\ c # " "

RunLen(s) ==
    CHOOSE n \in 1..Len(s) :
        /\ \A k \in 1..n : NameChar(s[k])
        /\ n = Len(s) \/ ~NameChar(s[n + 1])

RECURSIVE SkipTo(_, _)
RECURSIVE Candidates(_)
SkipTo(s, n) == <<SubSeq(s, 1, n)>> \o Candidates(SubSeq(s, n + 1, Len(s)))

Candidates(s) ==
    IF s = <<>> THEN <<>>
    ELSE IF NameChar(Head(s)) THEN SkipTo(s, RunLen(s))
    ELSE Candidates(Tail(s))

IsValidName(n) ==
    /\ n[1] \in letters
    /\ \A k \in 1..Len(n) : n[k] \in letters \cup digits \cup {"_"}

IsInvalidName(n) == ~IsValidName(n)

InvalidNames(s) == SelectSeq(Candidates(s), IsInvalidName)

\* the names the printed lines report as invalid, in the order printed
IsInvalidLine(line) == line.msg = "Invalid variable name: "

Reported(printed) ==
    [k \in 1..Len(SelectSeq(printed, IsInvalidLine)) |-> SelectSeq(printed, IsInvalidLine)[k].arg]

\* the first truthtable call on the statement built from a text returned
FirstTable == call.op = "truthtable" /\ call.fresh /\ ret.kind = "table"

TableToks == stmts[call.k].toks

-----------------------------------------------------------------------------
(* C1: for every expression of variables, balanced parentheses and at least *)
(* one binary operator, without Not, and for every assignment, the result   *)
(* is the left-to-right fold of the four truth tables, groups first.  Read  *)
(* on the rows of the first table of such a statement: each row ends with   *)
(* the fold's value under the assignment the row shows.                     *)

HasBin(toks) == \E k \in 1..Len(toks) : toks[k] \in bin_list

FoldShape(toks) == WellFormed(toks) /\ ~InList(toks, NOT) /\ HasBin(toks)

RowIsFold(toks, names, row) == Last(row) = Str(RefEval(toks, RowAsg(names, row)).val)

C1_LeftToRightFold ==
    (FirstTable /\ FoldShape(TableToks)) =>
        \A j \in 1..Len(table.rows) : RowIsFold(TableToks, call.names, table.rows[j])

\* the same with no name spelled like one of the evaluator's own tokens or
\* literals
Reserved == Range(tok_list) \cup {True, False}

C1_OrdinaryNames ==
    (FirstTable /\ FoldShape(TableToks) /\ NamesOf(TableToks) \cap Reserved = {}) =>
        \A j \in 1..Len(table.rows) : RowIsFold(TableToks, call.names, table.rows[j])

-----------------------------------------------------------------------------
(* C2: an expression that is a single valid variable v, possibly inside     *)
(* parentheses, evaluates to the boolean the registry holds for v: each row *)
(* of its truth table ends with the value the row gives v.  Names spelled   *)
(* like the evaluator's own tokens and literals are left aside.             *)

RECURSIVE Unwrap(_)
Unwrap(toks) ==
    IF Len(toks) >= 2 /\ Head(toks) = OPAREN /\ Last(toks) = CPAREN
    THEN Unwrap(SubSeq(toks, 2, Len(toks) - 1))
    ELSE toks

SingleVariable(toks) == Len(Unwrap(toks)) = 1 /\ IsName(Unwrap(toks)[1])

C2_SingleVariableValue ==
    (FirstTable /\ SingleVariable(TableToks) /\ NamesOf(TableToks) \cap Reserved = {}) =>
        \A j \in 1..Len(table.rows) :
            Last(table.rows[j]) = Str(RowAsg(call.names, table.rows[j])[Unwrap(TableToks)[1]])

-----------------------------------------------------------------------------
(* C3: a text "!!v" with v a valid name is accepted by statement() and its  *)
(* rows end with the value of v.                                            *)

DoubleNot(s) ==
    /\ Len(s) >= 3
    /\ s[1] = "!"
    /\ s[2] = "!"
    /\ Candidates(s) = <<SubSeq(s, 3, Len(s))>>
    /\ IsValidName(SubSeq(s, 3, Len(s)))

C3_DoubleNegation ==
    /\ (call.op = "statement" /\ DoubleNot(call.s)) => ret.kind = "statement"
    /\ (FirstTable /\ DoubleNot(src[call.k])) =>
           \A j \in 1..Len(table.rows) : Last(table.rows[j]) = table.rows[j][1]

-----------------------------------------------------------------------------
(* C4: the first truthtable(statement, start, end) on a statement built by  *)
(* statement(), with n names, returns the statement and one row per index i *)
(* of [start, end) in increasing order, end being 2^n when not given; row i *)
(* gives the k-th name found (k from 0) bit n-1-k of i, in the order the    *)
(* names were found, and ends with the result of eval under exactly that    *)
(* assignment.                                                              *)

Bit(i, b) == IF (i \div (2 ^ b)) % 2 = 1 THEN True ELSE False

RowValues(n, i) == [k \in 1..n |-> Bit(i, n - k)]

ValuesAsg(names, vals) ==
    [m \in Range(names) |-> vals[CHOOSE k \in 1..Len(names) : names[k] = m]]

ExpectedRow(toks, names, vals) == Append(vals, eval(toks, ValuesAsg(names, vals)).val)

ExpectedRows(toks, names, start, end) ==
    [j \in 1..(IF end > start THEN end - start ELSE 0) |->
        ExpectedRow(toks, names, RowValues(Len(names), start + j - 1))]

C4_FirstTable ==
    (call.op = "truthtable" /\ call.fresh) =>
        /\ ret.kind = "table"
        /\ table.head = call.k
        /\ table.rows = ExpectedRows(TableToks, call.names, call.start,
                                     IF call.end = -1 THEN 2 ^ Len(call.names) ELSE call.end)

\* truthtable(s, 1, 2) on a fresh statement of two names whose second name
\* alone is true in row 1, and the table of all four rows of such a statement
C4_Witness ==
    /\ FirstTable
    /\ Len(call.names) = 2
    /\ \/ call.start = 1 /\ call.end = 2 /\ table.rows = << <<False, True, False>> >>
       \/ call.start = 0 /\ call.end = -1 /\ Len(table.rows) = 4

-----------------------------------------------------------------------------
(* C7: when a text has a candidate name that is invalid, statement() fails  *)
(* with the empty result, never a list of three, wherever the name stands,  *)
(* and the names reported are exactly the invalid ones, one line each.      *)
(* Calls that never return are left aside.                                  *)

C7_InvalidNameRejected ==
    (call.op = "statement" /\ ret.kind # "hang" /\ InvalidNames(call.s) # <<>>) =>
        /\ ret.kind = "empty"
        /\ Reported(out) = InvalidNames(call.s)

-----------------------------------------------------------------------------
(* C8: when all names of a text are valid and its token sequence is not     *)
(* well-formed, statement() prints the malformed-statement line and returns *)
(* the empty result; nothing else escapes.  Calls that never return are     *)
(* left aside.                                                              *)

TextToks(s) == tokenize(s, <<OPAREN>>, <<>>, <<>>).toks

C8_MalformedReported ==
    (/\ call.op = "statement"
     /\ ret.kind # "hang"
     /\ InvalidNames(call.s) = <<>>
     /\ ~WellFormed(TextToks(call.s))) =>
        /\ ret.kind = "empty"
        /\ out = <<Printed("Malformed Statement", <<>>)>>

-----------------------------------------------------------------------------
(* C5: truthtable(s, start, end) returns the rows of the indices start to   *)
(* end-1, each equal to the row of the same index of truthtable(s) on the   *)
(* same statement object, whichever call is made first.  Read on two calls  *)
(* made one after the other on one statement.                               *)

FullRange(c) == c.start = 0 /\ c.end = -1

\* the rows of the range of call c among the rows of the full table
RowsOfRange(c, full) == SubSeq(full, c.start + 1, IF c.end = -1 THEN Len(full) ELSE c.end)

TwoTables ==
    /\ call.op = "truthtable" /\ ret.kind = "table"
    /\ call'.op = "truthtable" /\ ret'.kind = "table"
    /\ call'.k = call.k

C5_PartialRange ==
    [][TwoTables =>
          /\ FullRange(call) => table'.rows = RowsOfRange(call', table.rows)
          /\ FullRange(call') => table.rows = RowsOfRange(call, table'.rows)]_state

-----------------------------------------------------------------------------
(* C6: for two well-formed inputs a and b of combine, each a str or a built *)
(* statement, and every assignment, the statement combine returns evaluates *)
(* to (value of a) Or (value of b).                                         *)

WellFormedArg(a) ==
    IF a.t = "stmt" THEN WellFormed(stmts[a.k].toks)
    ELSE IF a.t = "str" THEN InvalidNames(a.s) = <<>> /\ WellFormed(TextToks(a.s))
    ELSE FALSE

ArgToks(a) == IF a.t = "stmt" THEN stmts[a.k].toks ELSE TextToks(a.s)

BoolAsg(asg) == [n \in DOMAIN asg |-> asg[n] = True]

RefValue(toks, asg) == RefEval(toks, BoolAsg(asg)).val

EvaluatesToOr(f, x, y) ==
    \A asg \in [DOMAIN dicts[f.vars] -> {True, False}] :
        eval(f.toks, asg) = Ok(Str(RefValue(ArgToks(x), asg) \/ RefValue(ArgToks(y), asg)))

C6_CombineIsOr ==
    (call.op = "combine" /\ WellFormedArg(call.x) /\ WellFormedArg(call.y)) =>
        /\ ret.kind = "statement"
        /\ EvaluatesToOr(stmts[ret.stmt], call.x, call.y)

\* the same for inputs without a Not
NoNot(a) == ~InList(ArgToks(a), NOT)

C6_WithoutNot ==
    (/\ call.op = "combine"
     /\ WellFormedArg(call.x) /\ WellFormedArg(call.y)
     /\ NoNot(call.x) /\ NoNot(call.y)) =>
        /\ ret.kind = "statement"
        /\ EvaluatesToOr(stmts[ret.stmt], call.x, call.y)

-----------------------------------------------------------------------------
(* C9: for every statement that statement() or combine returned, after any  *)
(* later truthtable, print_table and combine calls, the names among its     *)
(* tokens are exactly the keys of its registry.  Read on the statements     *)
(* built from texts whose names are all valid.                              *)

ValidTexts == \A j \in 1..Len(src) : InvalidNames(src[j]) = <<>>

C9_RegistryInvariant ==
    ValidTexts =>
        \A k \in 1..Len(stmts) : NamesOf(stmts[k].toks) = DOMAIN dicts[stmts[k].vars]

-----------------------------------------------------------------------------
(* C10: combine of two built statements a and b returns a statement whose   *)
(* tokens are OPAREN, a's tokens, OR, b's tokens, CPAREN; whose registry    *)
(* holds exactly the names of the two registries, with b's value where both *)
(* hold a name; and whose list of names is the sorted union, without        *)
(* repetition, of the two lists.  combine of a statement and a str gives    *)
(* what combine gives for the statement and the statement parsed from the   *)
(* str.                                                                     *)

RECURSIVE LexLess(_, _)
LexLess(a, b) ==
    IF b = <<>> THEN FALSE
    ELSE IF a = <<>> THEN TRUE
    ELSE IF Head(a) # Head(b) THEN ord(Head(a)) < ord(Head(b))
    ELSE LexLess(Tail(a), Tail(b))

IsSortedUnion(seq, S) ==
    /\ Range(seq) = S
    /\ \A i \in 1..Len(seq) : \A j \in 1..Len(seq) : i < j => LexLess(seq[i], seq[j])

\* a, b: the two statements as they were before the call; f: the one returned
CombinedFrom(a, b, f) ==
    /\ f.toks = <<OPAREN>> \o a.toks \o <<OR>> \o b.toks \o <<CPAREN>>
    /\ DOMAIN dicts'[f.vars] = (DOMAIN dicts[a.vars]) \cup (DOMAIN dicts[b.vars])
    /\ \A n \in DOMAIN dicts'[f.vars] :
           dicts'[f.vars][n] = IF n \in DOMAIN dicts[b.vars] THEN dicts[b.vars][n]
                               ELSE dicts[a.vars][n]
    /\ IsSortedUnion(lists'[f.order], Range(lists[a.order]) \cup Range(lists[b.order]))

C10_Statements ==
    (call'.op = "combine" /\ call'.x.t = "stmt" /\ call'.y.t = "stmt") =>
        /\ ret'.kind = "statement"
        /\ CombinedFrom(stmts[call'.x.k], stmts[call'.y.k], stmts'[ret'.stmt])

\* the str side replaced by what statement() returns for it: the statement,
\* held after the ones held already, or []
Parsed(a, p) ==
    IF a.t = "stmt" THEN a
    ELSE IF p.kind = "statement" THEN StmtArg(Len(stmts) + 1)
    ELSE EmptyArg

SameAsCombine(r) ==
    /\ ret'.kind = r.kind
    /\ ret'.exc = r.exc
    /\ dicts' = r.H.dicts
    /\ lists' = r.H.lists
    /\ r.kind = "statement" => stmts'[ret'.stmt] = r.st

SameAsParsedFirst(p, x, y) ==
    IF p.kind \in {"statement", "empty"}
    THEN SameAsCombine(combine(p.H, IF p.kind = "statement" THEN Append(stmts, p.st) ELSE stmts,
                               Parsed(x, p), Parsed(y, p)))
    ELSE ret'.kind = p.kind /\ ret'.exc = p.exc

C10_StatementAndString ==
    (call'.op = "combine" /\ {call'.x.t, call'.y.t} = {"stmt", "str"}) =>
        SameAsParsedFirst(statement(Heap, IF call'.x.t = "str" THEN call'.x.s ELSE call'.y.s),
                          call'.x, call'.y)

C10_CombineStructure == [][C10_Statements /\ C10_StatementAndString]_state

\* combine of the statements of "a->b" and "b|B", in either order, after a
\* truthtable call left the second argument's b true and the first's false
C10_Witness ==
    /\ call.op = "combine" /\ call.x.t = "stmt" /\ call.y.t = "stmt"
    /\ call.x.k # call.y.k
    /\ ret.kind = "statement"
    /\ lists[stmts[ret.stmt].order] = << <<"B">>, <<"a">>, <<"b">> >>
    /\ dicts[stmts[call.y.k].vars][<<"b">>] = True
    /\ \E n \in DOMAIN dicts[stmts[call.x.k].vars] : dicts[stmts[call.x.k].vars][n] = False

-----------------------------------------------------------------------------
(* C11: a token spelled as a valid variable name, used as the operand of    *)
(* Not or of a binary operator, is evaluated as the value the registry      *)
(* holds for it, whatever the name is; so the result of a statement is a    *)
(* function of its tokens and of its variables' values.  Read on the rows   *)
(* of the first table of every accepted statement that has an operator and  *)
(* no Not standing directly before a Not: each row ends with the value the  *)
(* statement has when every name is looked up in the row's assignment.      *)

HasOperator(toks) == HasBin(toks) \/ InList(toks, NOT)

NotBeforeNot(toks) == \E k \in 1..(Len(toks) - 1) : toks[k] = NOT /\ toks[k + 1] = NOT

OperandShape(toks) == WellFormed(toks) /\ HasOperator(toks) /\ ~NotBeforeNot(toks)

C11_OperandLookup ==
    (FirstTable /\ OperandShape(TableToks)) =>
        \A j \in 1..Len(table.rows) : RowIsFold(TableToks, call.names, table.rows[j])

\* the same with no name spelled like one of the evaluator's own tokens or
\* literals
C11_OrdinaryNames ==
    (FirstTable /\ OperandShape(TableToks) /\ NamesOf(TableToks) \cap Reserved = {}) =>
        \A j \in 1..Len(table.rows) : RowIsFold(TableToks, call.names, table.rows[j])

-----------------------------------------------------------------------------
(* C12: truthtable(statement, start, end) changes nothing of the statement  *)
(* but the values held in its registry: after the call its tokens and its   *)
(* list of names are what they were before the call, and the registry has   *)
(* the same keys.                                                           *)

TruthtableCalled == call'.op = "truthtable" /\ ncalls' = ncalls + 1

SameStatement(k) ==
    /\ stmts'[k].toks = stmts[k].toks
    /\ lists'[stmts'[k].order] = lists[stmts[k].order]
    /\ DOMAIN dicts'[stmts'[k].vars] = DOMAIN dicts[stmts[k].vars]

C12_TruthtableKeepsStatement == [][TruthtableCalled => SameStatement(call'.k)]_state

\* the same for statements of a single name, whose list is its own reverse
C12_SingleName ==
    [][(TruthtableCalled /\ Len(lists[stmts[call'.k].order]) <= 1) => SameStatement(call'.k)]_state

-----------------------------------------------------------------------------
(* C13: combine(a, b) leaves its input statements unchanged: after the call *)
(* the tokens, the registry (keys and values) and the list of names of each *)
(* are what they were before the call.                                      *)

CombineCalled == call'.op = "combine" /\ ncalls' = ncalls + 1

Untouched(k) ==
    /\ stmts'[k].toks = stmts[k].toks
    /\ dicts'[stmts'[k].vars] = dicts[stmts[k].vars]
    /\ lists'[stmts'[k].order] = lists[stmts[k].order]

UntouchedArg(a) == a.t = "stmt" => Untouched(a.k)

C13_CombineKeepsInputs ==
    [][CombineCalled => (UntouchedArg(call'.x) /\ UntouchedArg(call'.y))]_state

\* the same for the second argument alone, when it is another statement
\* than the first
C13_SecondInput ==
    [][(CombineCalled /\ call'.x.t = "stmt" /\ call'.y.t = "stmt" /\ call'.x.k # call'.y.k)
           => Untouched(call'.y.k)]_state

-----------------------------------------------------------------------------
(* C14: statement construction terminates on every text: the tokenizer's    *)
(* scan position strictly advances on every iteration of its loop, also at  *)
(* a '<' or '-' that begins neither '->' nor '<->', so the loop is left     *)
(* after at most len(text) iterations.                                      *)

Iteration == scan.on /\ scan'.on

C14_ScanAdvances == [][Iteration => scan'.i > scan.i]_state

\* the iteration-by-iteration scan and tokenize as one step agree: a scan
\* that left the loop built what tokenize returns, and a scan that stays at
\* a position is a call that never returns
C14_ScanIsTokenize ==
    /\ (~scan.on /\ scan # NoScan) =>
           scan.t = tokenize(scan.s, <<OPAREN>>, <<>>, <<>>)
    /\ (scan.on /\ scan.stuck > 0) => tokenize(scan.s, <<OPAREN>>, <<>>, <<>>).hang

\* the position advances on every iteration of a call that returns
C14_ReturningCalls ==
    [][(Iteration /\ ~tokenize(scan.s, <<OPAREN>>, <<>>, <<>>).hang) => scan'.i > scan.i]_state

=============================================================================
